---- MODULE Spec2Model ----
(***************************************************************************)
(* A model of epc/server.py: the EPC server's frame reader, its dispatch   *)
(* loop (EPCHandler), the function table (EPCDispacher), the outbound      *)
(* caller (EPCCaller) and the single-threaded accept loop of EPCServer.    *)
(***************************************************************************)
EXTENDS Integers, Sequences, FiniteSets, TLC

(* ------------------------------ bounds -------------------------------- *)

\* Messages the peers write, over all connections of one run.
MaxSent == 2
\* Invocations of EPCCaller.call / EPCCaller.methods in one run.
MaxCalls == 2
\* Longest payload string given to encode_string.
MaxLen == 16

(* ------------------------------ values -------------------------------- *)

\* A decoded s-expression value.  kind is "sym" (sexpdata.Symbol), "str"
\* (sexpdata.String / str), "list" (list or tuple, dumped alike), "methods"
\* (the list built by _handle_methods) or "nil".
Value(k, str, xs, es) == [kind |-> k, s |-> str, items |-> xs, entries |-> es]
Sym(n) == Value("sym", n, <<>>, <<>>)
Str(n) == Value("str", n, <<>>, <<>>)
List(xs) == Value("list", "", xs, <<>>)
MethodList(es) == Value("methods", "", <<>>, es)
Nil == Value("nil", "", <<>>, <<>>)

\* A decoded message: data[0].value() is the tag, data[1] the uid and
\* data[2:] the remaining elements.
Msg(t, u, r) == [tag |-> t, uid |-> u, rest |-> r]

\* The object _handle returns, as dumped by encode_object.
Reply(t, u, v) == [tag |-> t, uid |-> u, val |-> v]

Conns == {"c1", "c2"}
Uids == {0, 1}

\* The functions an application registers: echo (echo_server) returns its
\* arguments, boom raises whatever it is given.
Funcs == {"echo", "boom"}
\* The names register_function is given; "" stands for name=None.
RegNames == {"", "echo"}

FuncName(f) == f
FuncDoc(f) == IF f = "echo" THEN "Return argument unchanged." ELSE ""

\* func(*args): the value returned, or the exception raised.
Apply(f, args) ==
    IF f = "echo"
    THEN [exc |-> "", val |-> List(args)]
    ELSE [exc |-> "RuntimeError", val |-> Nil]


(* --------------------------- the input pool --------------------------- *)

\* The messages a peer writes.  The first five tags are the wire format's
\* (call uid meth args), (methods uid), (return uid value),
\* (return-error uid description), (epc-error uid description); "foo" is a
\* tag the handler has no method for; the last is a four-element `return`,
\* the shape _handle_return's signature accepts.
MsgShapes(u) ==
    { Msg("call", u, <<Sym("echo"), List(<<"x", "y">>)>>),
      Msg("call", u, <<Sym("boom"), List(<<>>)>>),
      Msg("methods", u, <<>>),
      Msg("return", u, <<List(<<"v">>)>>),
      Msg("return-error", u, <<Str("err")>>),
      Msg("epc-error", u, <<Str("err")>>),
      Msg("foo", u, <<>>),
      Msg("return", u, <<Sym("echo"), List(<<>>)>>) }
InMsgs == UNION { MsgShapes(u) : u \in Uids }

NoMsg == Msg("", 0, <<>>)

(* ------------------------------- state -------------------------------- *)

VARIABLES
    funcs,      \* EPCDispacher.funcs: name -> function
    debugger,   \* EPCServer.debugger
    instance,   \* EPCDispacher.instance
    allow_dotted_names,  \* EPCDispacher.allow_dotted_names, once set
    registered, \* the calls of register_function so far: for every key it
                \* was given, the function it was given last
    raised,     \* the exception the last call of a register_* method raised
    hookCalls,  \* the calls of debugger.post_mortem made so far
    pc,         \* per connection: where its handler is
    rfile,      \* per connection: the messages the peer has written
    rpos,       \* per connection: how many of them _recv has yielded
    eof,        \* per connection: the peer has closed its writing side
    cur,        \* per connection: the message handle() is dispatching
    wfile,      \* per connection: the objects written back
    ans,        \* per connection: for each object written, the index in
                \* rfile of the message it answers
    uidNext,    \* EPCCaller: the generator's i
    callbacks,  \* EPCCaller.callbacks: uid -> callback
    invoked,    \* the callback invocations made so far, <<uid, callback>>
    issued,     \* the values self.uid() has returned so far, in order,
                \* each with the method that asked for it
    encoded,    \* the object _send_object encoded last
    outbox,     \* the frames the caller has written to a peer
    s1, s2,     \* frame reader: the two payload strings that were encoded
    fed,        \* frame reader: the bytes the stream held at the start
    stream,     \* frame reader: the bytes of rfile not yet read
    items,      \* frame reader: the items _recv has yielded
    rstate      \* frame reader: "idle", "reading", "ended" or "error"

serverVars == <<funcs, debugger, instance, allow_dotted_names, registered, raised>>
connVars == <<pc, rfile, rpos, eof, cur, wfile, ans>>
callerVars == <<uidNext, callbacks, invoked, issued, encoded, outbox>>
frameVars == <<s1, s2, fed, stream, items, rstate>>
vars == <<funcs, debugger, instance, allow_dotted_names, registered, raised, hookCalls,
          pc, rfile, rpos, eof, cur, wfile, ans,
          uidNext, callbacks, invoked, issued, encoded, outbox,
          s1, s2, fed, stream, items, rstate>>


(* ----------------------------- EPCHandler ----------------------------- *)

\* What a handler method does: return an object, return None, or raise.
Ret(obj) == [kind |-> "obj", exc |-> "", obj |-> obj]
RetNone == [kind |-> "none", exc |-> "", obj |-> Reply("", 0, Nil)]
Raise(e) == [kind |-> "raise", exc |-> e, obj |-> Reply("", 0, Nil)]

\* The attributes an EPCHandler instance has: those of
\* SocketServer.StreamRequestHandler, the class attribute logger and the
\* methods the class defines.  No `debugger` is among them: __init__ of
\* EPCServer sets that attribute on the server.
HandlerAttrs ==
    { "server", "request", "client_address", "connection", "rfile", "wfile",
      "logger", "_recv", "_send", "handle", "_handle",
      "_handle_call", "_handle_return", "_handle_methods" }

\* v.value() exists on sexpdata's Symbol and String only.
HasValue(v) == v.kind \in {"sym", "str"}
\* func(*v) needs an iterable.
Iterable(v) == v.kind = "list"

NoSuchMethod(name) == "EPC-ERROR: No such method : " \o name

\* _handle_call with the result of the function left out of the reply.
_handle_call_novalue(fs, uid, rest) ==
    IF Len(rest) # 2 THEN Raise("TypeError")
    ELSE IF ~HasValue(rest[1]) THEN Raise("AttributeError")
    ELSE LET name == rest[1].s IN
         IF name \in DOMAIN fs
         THEN IF ~Iterable(rest[2]) THEN Raise("TypeError")
              ELSE LET r == Apply(fs[name], rest[2].items) IN
                   IF r.exc # "" THEN Raise(r.exc)
                   ELSE Ret(Reply("return", uid, Nil))
         ELSE Ret(Reply("epc-error", uid, Str(NoSuchMethod(name))))

\* _handle_call without the membership test: funcs[name] raises KeyError
\* for a name that is not registered.
_handle_call_nocheck(fs, uid, rest) ==
    IF Len(rest) # 2 THEN Raise("TypeError")
    ELSE IF ~HasValue(rest[1]) THEN Raise("AttributeError")
    ELSE LET name == rest[1].s IN
         IF name \in DOMAIN fs
         THEN IF ~Iterable(rest[2]) THEN Raise("TypeError")
              ELSE LET r == Apply(fs[name], rest[2].items) IN
                   IF r.exc # "" THEN Raise(r.exc)
                   ELSE Ret(Reply("return", uid, r.val))
         ELSE Raise("KeyError")

\* _handle_call(self, uid, meth, args), called as _handle_call(uid, *rest).
_handle_call(fs, uid, rest) ==
    IF Len(rest) # 2 THEN Raise("TypeError")
    ELSE IF ~HasValue(rest[1]) THEN Raise("AttributeError")
    ELSE LET name == rest[1].s IN
         IF name \in DOMAIN fs
         THEN IF ~Iterable(rest[2]) THEN Raise("TypeError")
              ELSE LET r == Apply(fs[name], rest[2].items) IN
                   IF r.exc # "" THEN Raise(r.exc)
                   ELSE Ret(Reply("return", uid, r.val))
         ELSE Ret(Reply("epc-error", uid, Str(NoSuchMethod(name))))

\* _handle_return(self, uid, meth, args): its body is `pass`.
_handle_return(uid, rest) ==
    IF Len(rest) # 2 THEN Raise("TypeError") ELSE RetNone

\* One entry of the list _handle_methods builds.
MethodEntry(name, f) == [name |-> name, argspec |-> <<>>, doc |-> FuncDoc(f)]

\* The orders funcs.iteritems() may enumerate the table in.
Orders(S) ==
    { q \in [1 .. Cardinality(S) -> S] : \A x \in S : \E i \in DOMAIN q : q[i] = x }

\* _handle_methods naming each entry after the function (func.__name__)
\* instead of the key it is registered under.
_handle_methods_funcname(fs, q, uid, rest) ==
    IF Len(rest) # 0 THEN Raise("TypeError")
    ELSE Ret(Reply("return", uid,
                   MethodList([i \in DOMAIN q |->
                                  MethodEntry(FuncName(fs[q[i]]), fs[q[i]])])))

\* _handle_methods(self, uid), with the table enumerated in order q.
_handle_methods(fs, q, uid, rest) ==
    IF Len(rest) # 0 THEN Raise("TypeError")
    ELSE Ret(Reply("return", uid,
                   MethodList([i \in DOMAIN q |-> MethodEntry(q[i], fs[q[i]])])))

\* getattr(self, '_handle_{0}'.format(name))(uid, *args)
Method(fs, q, name, uid, rest) ==
    IF ("_handle_" \o name) \notin HandlerAttrs THEN Raise("AttributeError")
    ELSE IF name = "call" THEN _handle_call(fs, uid, rest)
    ELSE IF name = "return" THEN _handle_return(uid, rest)
    ELSE _handle_methods(fs, q, uid, rest)

\* The except clause of _handle: `if self.debugger:` reads an attribute of
\* the handler; when the handler has none the lookup raises and the
\* exception leaves _handle.
ExceptClause(uid, err) ==
    IF "debugger" \notin HandlerAttrs THEN Raise("AttributeError")
    ELSE Ret(Reply("return-error", uid, Str(err)))

\* Whether _handle calls self.debugger.post_mortem(traceback): the method
\* raised, the handler has a debugger attribute and it is not None.
PostMortem(fs, q, name, uid, rest, dbg) ==
    /\ Method(fs, q, name, uid, rest).kind = "raise"
    /\ "debugger" \in HandlerAttrs
    /\ dbg # "None"

\* _handle(self, name, uid, *args)
_handle(fs, q, name, uid, rest) ==
    LET r == Method(fs, q, name, uid, rest) IN
    IF r.kind = "raise" THEN ExceptClause(uid, r.exc) ELSE r


(* ------------------------------ actions ------------------------------- *)

Live == {"pending", "receiving", "dispatching"}
Serving == {"receiving", "dispatching"}

RECURSIVE SentOn(_)
SentOn(S) ==
    IF S = {} THEN 0
    ELSE LET c == CHOOSE x \in S : TRUE IN Len(rfile[c]) + SentOn(S \ {c})
TotalSent == SentOn(Conns)

\* EPCDispacher.__init__, EPCServer.__init__, EPCCaller.__init__; no
\* connection has been made.
ServerInit ==
    /\ funcs = <<>>
    /\ instance = "None"
    /\ allow_dotted_names = "unset"
    /\ registered = <<>>
    /\ raised = ""
    /\ hookCalls = 0
    /\ pc = [c \in Conns |-> "unconnected"]
    /\ rfile = [c \in Conns |-> <<>>]
    /\ rpos = [c \in Conns |-> 0]
    /\ eof = [c \in Conns |-> FALSE]
    /\ cur = [c \in Conns |-> NoMsg]
    /\ wfile = [c \in Conns |-> <<>>]
    /\ ans = [c \in Conns |-> <<>>]
    /\ uidNext = 0
    /\ callbacks = <<>>
    /\ invoked = <<>>
    /\ issued = <<>>
    /\ encoded = NoMsg
    /\ outbox = <<>>

\* No byte stream is being read.
FrameIdle ==
    /\ s1 = <<>>
    /\ s2 = <<>>
    /\ fed = <<>>
    /\ stream = <<>>
    /\ items = <<>>
    /\ rstate = "idle"

\* EPCServer(server_address, debugger=...)
Init ==
    /\ debugger \in {"None", "pdb"}
    /\ ServerInit
    /\ FrameIdle

\* A peer connects; the connection waits in the listening socket's queue.
Connect(c) ==
    /\ pc[c] = "unconnected"
    /\ pc' = [pc EXCEPT ![c] = "pending"]
    /\ UNCHANGED <<rfile, rpos, eof, cur, wfile, ans, serverVars, callerVars, frameVars, hookCalls>>

\* A peer writes one framed message.
PeerSend(c, m) ==
    /\ pc[c] \in Live
    /\ ~eof[c]
    /\ TotalSent < MaxSent
    /\ rfile' = [rfile EXCEPT ![c] = Append(@, m)]
    /\ UNCHANGED <<pc, rpos, eof, cur, wfile, ans, serverVars, callerVars, frameVars, hookCalls>>

\* A peer closes its writing side.
PeerClose(c) ==
    /\ pc[c] \in Live
    /\ ~eof[c]
    /\ eof' = [eof EXCEPT ![c] = TRUE]
    /\ UNCHANGED <<pc, rfile, rpos, cur, wfile, ans, serverVars, callerVars, frameVars, hookCalls>>

\* serve_forever of SocketServer.TCPServer: one request at a time, its
\* handler run to the end before the next connection is accepted.
Accept(c) ==
    /\ pc[c] = "pending"
    /\ \A d \in Conns : pc[d] \notin Serving
    /\ pc' = [pc EXCEPT ![c] = "receiving"]
    /\ UNCHANGED <<rfile, rpos, eof, cur, wfile, ans, serverVars, callerVars, frameVars, hookCalls>>

\* A reader that yields the newest frame of the stream instead of the oldest.
NextFrame_newest(c) == rfile[c][Len(rfile[c])]

\* The frame _recv yields next.
NextFrame(c) == rfile[c][rpos[c] + 1]

\* handle(): `for sexp in self._recv(): data = loads(sexp)`.
handle_recv(c) ==
    /\ pc[c] = "receiving"
    /\ rpos[c] < Len(rfile[c])
    /\ cur' = [cur EXCEPT ![c] = NextFrame(c)]
    /\ rpos' = [rpos EXCEPT ![c] = @ + 1]
    /\ pc' = [pc EXCEPT ![c] = "dispatching"]
    /\ UNCHANGED <<rfile, eof, wfile, ans, serverVars, callerVars, frameVars, hookCalls>>

\* handle(): _recv returns on an empty header read and the loop ends.
handle_eof(c) ==
    /\ pc[c] = "receiving"
    /\ rpos[c] = Len(rfile[c])
    /\ eof[c]
    /\ pc' = [pc EXCEPT ![c] = "closed"]
    /\ UNCHANGED <<rfile, rpos, eof, cur, wfile, ans, serverVars, callerVars, frameVars, hookCalls>>

\* What dumps makes of None is sexpdata's business: the "()" frame, or a
\* TypeError.
NilFrame == Reply("()", -1, Nil)
DumpsNone == {"()", "TypeError"}

\* handle() writing the encoded reply twice.
handle_dispatch_twice(c) ==
    /\ pc[c] = "dispatching"
    /\ \E q \in Orders(DOMAIN funcs), d \in DumpsNone :
         LET m == cur[c]
             r == _handle(funcs, q, m.tag, m.uid, m.rest)
             sent == IF r.kind = "obj" THEN <<r.obj>>
                     ELSE IF r.kind = "none" /\ d = "()" THEN <<NilFrame>>
                     ELSE <<>>
         IN /\ hookCalls' = hookCalls +
                   (IF PostMortem(funcs, q, m.tag, m.uid, m.rest, debugger) THEN 1 ELSE 0)
            /\ wfile' = [wfile EXCEPT ![c] = @ \o sent \o sent]
            /\ ans' = [ans EXCEPT ![c] = IF sent = <<>> THEN @ ELSE Append(@, rpos[c])]
            /\ pc' = [pc EXCEPT ![c] = IF sent = <<>> THEN "failed" ELSE "receiving"]
    /\ UNCHANGED <<rfile, rpos, eof, cur, serverVars, callerVars, frameVars>>

\* handle(): `obj = self._handle(...); self._send(encode_object(obj))`.
handle_dispatch(c) ==
    /\ pc[c] = "dispatching"
    /\ \E q \in Orders(DOMAIN funcs), d \in DumpsNone :
         LET m == cur[c]
             r == _handle(funcs, q, m.tag, m.uid, m.rest)
             sent == IF r.kind = "obj" THEN <<r.obj>>
                     ELSE IF r.kind = "none" /\ d = "()" THEN <<NilFrame>>
                     ELSE <<>>
         IN /\ hookCalls' = hookCalls +
                   (IF PostMortem(funcs, q, m.tag, m.uid, m.rest, debugger) THEN 1 ELSE 0)
            /\ wfile' = [wfile EXCEPT ![c] = @ \o sent]
            /\ ans' = [ans EXCEPT ![c] = IF sent = <<>> THEN @ ELSE Append(@, rpos[c])]
            /\ pc' = [pc EXCEPT ![c] = IF sent = <<>> THEN "failed" ELSE "receiving"]
    /\ UNCHANGED <<rfile, rpos, eof, cur, serverVars, callerVars, frameVars>>

\* register_function keeping the binding a name already has.
register_function_first(f, name) ==
    LET key == IF name = "" THEN FuncName(f) ELSE name IN
    /\ funcs' = [n \in DOMAIN funcs \cup {key} |-> IF n \in DOMAIN funcs THEN funcs[n] ELSE f]
    /\ registered' = [n \in DOMAIN registered \cup {key} |->
                         IF n = key THEN f ELSE registered[n]]
    /\ raised' = ""
    /\ UNCHANGED <<debugger, instance, allow_dotted_names, hookCalls,
                   connVars, callerVars, frameVars>>

\* register_function(self, function, name=None)
register_function(f, name) ==
    LET key == IF name = "" THEN FuncName(f) ELSE name IN
    /\ funcs' = [n \in DOMAIN funcs \cup {key} |-> IF n = key THEN f ELSE funcs[n]]
    /\ registered' = [n \in DOMAIN registered \cup {key} |->
                         IF n = key THEN f ELSE registered[n]]
    /\ raised' = ""
    /\ UNCHANGED <<debugger, instance, allow_dotted_names, hookCalls,
                   connVars, callerVars, frameVars>>

\* The objects an application offers to register_instance, and the methods
\* such an object has.
Instances == {"obj"}
InstanceMethods(inst) == {"ping"}

\* register_instance entering the methods of the instance in the table.
register_instance_methods(inst, dotted) ==
    /\ instance' = inst
    /\ allow_dotted_names' = dotted
    /\ funcs' = [n \in DOMAIN funcs \cup InstanceMethods(inst) |->
                    IF n \in InstanceMethods(inst) THEN "echo" ELSE funcs[n]]
    /\ raised' = ""
    /\ UNCHANGED <<debugger, registered, hookCalls, connVars, callerVars, frameVars>>

\* register_instance(self, instance, allow_dotted_names=False): the two
\* attributes are set, then NotImplementedError is raised.
register_instance(inst, dotted) ==
    /\ instance' = inst
    /\ allow_dotted_names' = dotted
    /\ raised' = "NotImplementedError"
    /\ UNCHANGED <<funcs, debugger, registered, hookCalls, connVars, callerVars, frameVars>>

(* ----------------------------- EPCCaller ------------------------------ *)

Callbacks == {"cb"}
CallArgs == {<<>>, <<"x">>, <<"x", "y">>}

\* A generator whose increment is lost: once past 0 it yields the value
\* it yielded before.
uid_repeated == IF uidNext = 0 THEN 0 ELSE uidNext - 1

\* The value the generator behind self.uid yields next.
uid == uidNext

\* [Symbol('call'), uid, name] + args: the elements of args follow the
\* name one by one.
CallObject(u, name, args) ==
    Msg("call", u, <<Str(name)>> \o [i \in DOMAIN args |-> Str(args[i])])

\* _send_object(self, obj): encode_object(obj), whose result is dropped.
_send_object(obj) ==
    /\ encoded' = obj
    /\ outbox' = outbox

\* call(self, name, args, callback).  _send_object encodes the object and
\* returns: the class has no transport, nothing reaches a peer.
call(name, args, callback) ==
    /\ uidNext < MaxCalls
    /\ uidNext' = uid + 1
    /\ issued' = Append(issued, [uid |-> uid, by |-> "call"])
    /\ _send_object(CallObject(uid, name, args))
    /\ callbacks' = [u \in DOMAIN callbacks \cup {uid} |->
                        IF u = uid THEN callback ELSE callbacks[u]]
    /\ UNCHANGED <<invoked, serverVars, connVars, frameVars, hookCalls>>

\* methods(self, name, callback)
methods(name, callback) ==
    /\ uidNext < MaxCalls
    /\ uidNext' = uid + 1
    /\ issued' = Append(issued, [uid |-> uid, by |-> "methods"])
    /\ _send_object(Msg("methods", uid, <<>>))
    /\ callbacks' = [u \in DOMAIN callbacks \cup {uid} |->
                        IF u = uid THEN callback ELSE callbacks[u]]
    /\ UNCHANGED <<invoked, serverVars, connVars, frameVars, hookCalls>>

(* ------------------------------ framing ------------------------------- *)

\* Text is a sequence of one-character strings.
HexChars == <<"0", "1", "2", "3", "4", "5", "6", "7",
              "8", "9", "a", "b", "c", "d", "e", "f">>
HeaderWidth == 6
\* The largest number six hexadecimal digits write: 0xffffff.
HeaderMax == 16777215
Newline == "\n"

\* "{0:x}".format(n)
RECURSIVE Hex(_)
Hex(n) == IF n < 16 THEN <<HexChars[n + 1]>>
          ELSE Append(Hex(n \div 16), HexChars[(n % 16) + 1])

\* "{0:06x}".format(n): zero-padded to six characters, longer when n needs it.
Hex06(n) ==
    LET h == Hex(n) IN
    IF Len(h) >= HeaderWidth THEN h
    ELSE [i \in 1 .. (HeaderWidth - Len(h)) |-> "0"] \o h

\* encode_string with the header counting the string alone.
encode_string_nonewline(string) == Hex06(Len(string)) \o string \o <<Newline>>

\* encode_string(string)
encode_string(string) == Hex06(Len(string) + 1) \o string \o <<Newline>>

HexValue(ch) == (CHOOSE i \in DOMAIN HexChars : HexChars[i] = ch) - 1
IsHex(text) ==
    /\ Len(text) > 0
    /\ \A i \in DOMAIN text : \E j \in DOMAIN HexChars : HexChars[j] = text[i]

\* int(head, 16) of a string of hexadecimal digits.
RECURSIVE IntHex(_)
IntHex(text) ==
    IF Len(text) = 0 THEN 0
    ELSE 16 * IntHex(SubSeq(text, 1, Len(text) - 1)) + HexValue(text[Len(text)])

\* rfile.read(n) on a stream whose writer has finished: n bytes, or what is left.
Read(text, n) == SubSeq(text, 1, IF n < Len(text) THEN n ELSE Len(text))
Rest(text, n) == SubSeq(text, (IF n < Len(text) THEN n ELSE Len(text)) + 1, Len(text))

\* _recv yielding what it could read of a payload that the stream cut short.
RecvRound_short(text) ==
    LET head == Read(text, HeaderWidth)
        more == Rest(text, HeaderWidth)
    IN  IF Len(head) = 0 THEN [state |-> "ended", data |-> <<>>, left |-> text]
        ELSE IF ~IsHex(head) THEN [state |-> "error", data |-> <<>>, left |-> more]
        ELSE LET length == IntHex(head) IN
             [state |-> "reading", data |-> Read(more, length),
              left |-> Rest(more, length)]

\* One round of the loop of _recv on the bytes `text`: the generator returns
\* ("ended"), raises ValueError ("error"), or yields `data` ("reading").
RecvRound(text) ==
    LET head == Read(text, HeaderWidth)
        more == Rest(text, HeaderWidth)
    IN  IF Len(head) = 0 THEN [state |-> "ended", data |-> <<>>, left |-> text]
        ELSE IF ~IsHex(head) THEN [state |-> "error", data |-> <<>>, left |-> more]
        ELSE LET length == IntHex(head)
                 data == Read(more, length)
             IN  IF Len(data) < length
                 THEN [state |-> "error", data |-> data, left |-> Rest(more, length)]
                 ELSE [state |-> "reading", data |-> data, left |-> Rest(more, length)]

\* One round of _recv on the stream.
_recv ==
    /\ rstate = "reading"
    /\ LET r == RecvRound(stream) IN
        /\ rstate' = r.state
        /\ stream' = r.left
        /\ items' = IF r.state = "reading" THEN Append(items, r.data) ELSE items
    /\ UNCHANGED <<s1, s2, fed, serverVars, connVars, callerVars, hookCalls>>

\* The payload strings fed to encode_string: runs of one character.
PayloadChars == {"a", "("}
Payloads == { [i \in 1 .. n |-> ch] : n \in 0 .. MaxLen, ch \in PayloadChars }

\* The reader is given two encoded frames, or a stream that ended before
\* the second of them was complete.
FrameInit ==
    /\ debugger = "None"
    /\ ServerInit
    /\ s1 \in Payloads
    /\ s2 \in Payloads
    /\ fed \in { Read(encode_string(s1) \o encode_string(s2), n) :
                  n \in Len(encode_string(s1)) .. Len(encode_string(s1) \o encode_string(s2)) }
    /\ stream = fed
    /\ items = <<>>
    /\ rstate = "reading"

FrameNext == _recv

FrameSpec == FrameInit /\ [][FrameNext]_vars

(* ------------------------ the session on bytes ------------------------ *)

\* The characters of a string, one by one.
Chars(str) == [i \in 1 .. Len(str) |-> SubSeq(str, i, i)]

RECURSIVE Join(_)
Join(xs) ==
    IF Len(xs) = 0 THEN ""
    ELSE IF Len(xs) = 1 THEN xs[1]
    ELSE xs[1] \o " " \o Join(Tail(xs))

Quote(str) == "\"" \o str \o "\""

\* dumps of one element of a message: a symbol bare, a string quoted, a
\* list in parentheses.
DumpsValue(v) ==
    IF v.kind = "sym" THEN v.s
    ELSE IF v.kind = "str" THEN Quote(v.s)
    ELSE IF v.kind = "list"
         THEN "(" \o Join([i \in DOMAIN v.items |-> Quote(v.items[i])]) \o ")"
    ELSE "()"

\* encode_object(obj) before framing: dumps(obj) of a message.
dumps(m) ==
    "(" \o Join(<<m.tag, ToString(m.uid)>> \o
                [i \in DOMAIN m.rest |-> DumpsValue(m.rest[i])]) \o ")"

\* encode_object(obj)
encode_object(m) == encode_string(Chars(dumps(m)))

\* The text without the white space that ends it.
RECURSIVE Strip(_)
Strip(text) ==
    IF Len(text) > 0 /\ text[Len(text)] \in {Newline, " "}
    THEN Strip(SubSeq(text, 1, Len(text) - 1))
    ELSE text

\* loads(sexp): the message the text is the dump of; a text that is no
\* complete s-expression raises.
loads(text) ==
    LET hits == { m \in InMsgs : Chars(dumps(m)) = Strip(text) } IN
    IF hits = {} THEN [ok |-> FALSE, msg |-> NoMsg]
    ELSE [ok |-> TRUE, msg |-> CHOOSE m \in hits : TRUE]

\* handle() on the bytes of rfile: one round of _recv, then loads.  The
\* generator returning ends the loop; ValueError from _recv and whatever
\* loads raises leave handle().
handle_read(c) ==
    /\ pc[c] = "receiving"
    /\ rstate = "reading"
    /\ LET r == RecvRound(stream)
           parsed == loads(r.data)
       IN  /\ rstate' = r.state
           /\ stream' = r.left
           /\ items' = IF r.state = "reading" THEN Append(items, r.data) ELSE items
           /\ pc' = [pc EXCEPT ![c] = IF r.state = "ended" THEN "closed"
                                      ELSE IF r.state = "error" THEN "failed"
                                      ELSE IF ~parsed.ok THEN "failed"
                                      ELSE "dispatching"]
           /\ cur' = [cur EXCEPT ![c] = IF r.state = "reading" /\ parsed.ok
                                        THEN parsed.msg ELSE @]
           /\ rpos' = [rpos EXCEPT ![c] = IF r.state = "reading" THEN @ + 1 ELSE @]
    /\ UNCHANGED <<s1, s2, fed, rfile, eof, wfile, ans, serverVars, callerVars, hookCalls>>

\* The connection the session specifications follow.
Session == {"c1"}

\* The payloads a peer frames: two messages and a text that breaks off.
StreamMsgs ==
    { Msg("call", 0, <<Sym("echo"), List(<<"x", "y">>)>>), Msg("methods", 0, <<>>) }
StreamTexts == { Chars(dumps(m)) : m \in StreamMsgs } \cup { Chars("(call 0") }

\* A peer has written two frames and closed, or has closed anywhere before
\* the end of the second.
StreamInit ==
    /\ debugger = "None"
    /\ ServerInit
    /\ s1 \in StreamTexts
    /\ s2 \in StreamTexts
    /\ fed \in { Read(encode_string(s1) \o encode_string(s2), n) :
                  n \in 0 .. Len(encode_string(s1) \o encode_string(s2)) }
    /\ stream = fed
    /\ items = <<>>
    /\ rstate = "reading"

StreamNext ==
    \/ \E c \in Session : Connect(c)
    \/ \E c \in Session : Accept(c)
    \/ \E c \in Session : handle_read(c)
    \/ \E c \in Session : handle_dispatch(c)

StreamSpec == StreamInit /\ [][StreamNext]_vars

(* --------------------------- specifications --------------------------- *)

\* One session: a peer on connection c1 writes requests and unknown tags
\* with any uid, and replies (the caller has issued no call: every reply is
\* unmatched, whatever its uid) with uid 0, while the application registers
\* functions.
SessionMsgs ==
    { m \in InMsgs : m.tag \in {"return", "return-error", "epc-error"} => m.uid = 0 }

Next ==
    \/ \E c \in Session : Connect(c)
    \/ \E c \in Session, m \in SessionMsgs : PeerSend(c, m)
    \/ \E c \in Session : PeerClose(c)
    \/ \E c \in Session : Accept(c)
    \/ \E c \in Session : handle_recv(c)
    \/ \E c \in Session : handle_eof(c)
    \/ \E c \in Session : handle_dispatch(c)
    \/ \E f \in Funcs, name \in RegNames : register_function(f, name)

Spec == Init /\ [][Next]_vars

\* The caller issues calls while a peer on c1 writes replies.
ReplyMsgs == { m \in InMsgs : m.tag \in {"return", "return-error", "epc-error"} }

CallerNext ==
    \/ \E a \in CallArgs, cb \in Callbacks : call("echo", a, cb)
    \/ \E cb \in Callbacks : methods("", cb)
    \/ \E c \in Session : Connect(c)
    \/ \E c \in Session, m \in ReplyMsgs : PeerSend(c, m)
    \/ \E c \in Session : PeerClose(c)
    \/ \E c \in Session : Accept(c)
    \/ \E c \in Session : handle_recv(c)
    \/ \E c \in Session : handle_eof(c)
    \/ \E c \in Session : handle_dispatch(c)

CallerSpec == Init /\ [][CallerNext]_vars

\* One server and both connections: the peers write requests with uid 0
\* while the application registers functions.
ServerMsgs ==
    { Msg("call", 0, <<Sym("echo"), List(<<"x", "y">>)>>), Msg("methods", 0, <<>>) }

ServerNext ==
    \/ \E c \in Conns : Connect(c)
    \/ \E c \in Conns, m \in ServerMsgs : PeerSend(c, m)
    \/ \E c \in Conns : PeerClose(c)
    \/ \E c \in Conns : Accept(c)
    \/ \E c \in Conns : handle_recv(c)
    \/ \E c \in Conns : handle_eof(c)
    \/ \E c \in Conns : handle_dispatch(c)
    \/ \E f \in Funcs, name \in RegNames : register_function(f, name)

ServerSpec == Init /\ [][ServerNext]_vars

\* One session while the application registers echo and offers an instance:
\* the peer calls echo, calls ping (a method of the instance) and asks for
\* the methods.
RegistryMsgs ==
    { Msg("call", 0, <<Sym("echo"), List(<<"x", "y">>)>>),
      Msg("call", 0, <<Sym("ping"), List(<<>>)>>),
      Msg("methods", 0, <<>>) }

RegistryNext ==
    \/ \E c \in Session : Connect(c)
    \/ \E c \in Session, m \in RegistryMsgs : PeerSend(c, m)
    \/ \E c \in Session : PeerClose(c)
    \/ \E c \in Session : Accept(c)
    \/ \E c \in Session : handle_recv(c)
    \/ \E c \in Session : handle_eof(c)
    \/ \E c \in Session : handle_dispatch(c)
    \/ register_function("echo", "")
    \/ \E inst \in Instances, dotted \in {"False", "True"} : register_instance(inst, dotted)

RegistrySpec == Init /\ [][RegistryNext]_vars

(* ------------------------------- claims ------------------------------- *)

\* handle() has finished dispatching the message cur[c] in this step.
Dispatched(c) == pc[c] = "dispatching" /\ pc'[c] # "dispatching"

\* (call uid meth args): a method name and an argument list.
IsCall(m) ==
    /\ m.tag = "call"
    /\ Len(m.rest) = 2
    /\ HasValue(m.rest[1])
    /\ Iterable(m.rest[2])

\* C1: a `call` of a registered function that returns is answered by
\* exactly one reply, (return uid value), with the uid of the call and the
\* value the function returns for the argument list; for echo, the
\* arguments themselves.  The session goes on receiving.
C1_CallReturns ==
    [][\A c \in Conns :
         LET m == cur[c] IN
         ( /\ Dispatched(c)
           /\ IsCall(m)
           /\ m.rest[1].s \in DOMAIN funcs
           /\ Apply(funcs[m.rest[1].s], m.rest[2].items).exc = "" )
         => /\ wfile'[c] = Append(wfile[c],
                   Reply("return", m.uid, Apply(funcs[m.rest[1].s], m.rest[2].items).val))
            /\ funcs[m.rest[1].s] = "echo"
                   => wfile'[c][Len(wfile'[c])].val = List(m.rest[2].items)
            /\ pc'[c] = "receiving"]_vars

\* C1 witness: (call 1 echo ("x" "y")) has been answered by (return 1 ("x" "y")).
C1_Witness ==
    \E c \in Conns :
        /\ pc[c] = "receiving"
        /\ cur[c] = Msg("call", 1, <<Sym("echo"), List(<<"x", "y">>)>>)
        /\ Len(wfile[c]) = rpos[c]
        /\ rpos[c] > 0
        /\ wfile[c][rpos[c]] = Reply("return", 1, List(<<"x", "y">>))

\* C2: a `call` of a name that is not in the function table is answered by
\* (epc-error uid "EPC-ERROR: No such method : <name>") with the uid of the
\* call, and the receive loop goes on: the handler is receiving again.
C2_UnknownMethod ==
    [][\A c \in Conns :
         LET m == cur[c] IN
         ( /\ Dispatched(c)
           /\ IsCall(m)
           /\ m.rest[1].s \notin DOMAIN funcs )
         => /\ wfile'[c] = Append(wfile[c],
                   Reply("epc-error", m.uid, Str(NoSuchMethod(m.rest[1].s))))
            /\ pc'[c] = "receiving"]_vars

\* C2 witness: the first message called an unregistered name and got its
\* epc-error; the second message on the connection got its reply after it.
C2_Witness ==
    \E c \in Conns :
        /\ rpos[c] = 2
        /\ pc[c] = "receiving"
        /\ Len(wfile[c]) = 2
        /\ rfile[c][1].tag = "call"
        /\ wfile[c][1] = Reply("epc-error", rfile[c][1].uid,
                               Str(NoSuchMethod(rfile[c][1].rest[1].s)))
        /\ wfile[c][2].uid = rfile[c][2].uid

\* One object has been written to wfile[c] in this step, after those
\* already there.
OneSent(c) ==
    /\ Len(wfile'[c]) = Len(wfile[c]) + 1
    /\ SubSeq(wfile'[c], 1, Len(wfile[c])) = wfile[c]
LastSent(c) == wfile'[c][Len(wfile'[c])]

\* C3: with no debugger hook on the server, a `call` whose function raises
\* is answered by (return-error uid <string>) with the uid of the call, no
\* exception leaves the dispatch loop, and the handler is receiving again.
C3_RaiseReported ==
    [][\A c \in Conns :
         LET m == cur[c] IN
         ( /\ Dispatched(c)
           /\ debugger = "None"
           /\ IsCall(m)
           /\ m.rest[1].s \in DOMAIN funcs
           /\ Apply(funcs[m.rest[1].s], m.rest[2].items).exc # "" )
         => /\ OneSent(c)
            /\ LastSent(c).tag = "return-error"
            /\ LastSent(c).uid = m.uid
            /\ LastSent(c).val.kind = "str"
            /\ pc'[c] = "receiving"]_vars

\* C4: (methods uid) is answered by (return uid L), L holding one entry
\* (name, empty argument-spec, description) for every name in the function
\* table, each name once and no other name.
C4_MethodsListed ==
    [][\A c \in Conns :
         LET m == cur[c] IN
         ( /\ Dispatched(c)
           /\ m.tag = "methods"
           /\ Len(m.rest) = 0 )
         => /\ OneSent(c)
            /\ pc'[c] = "receiving"
            /\ LET r == LastSent(c) L == LastSent(c).val.entries IN
                /\ r.tag = "return"
                /\ r.uid = m.uid
                /\ r.val.kind = "methods"
                /\ Len(L) = Cardinality(DOMAIN funcs)
                /\ { L[i].name : i \in DOMAIN L } = DOMAIN funcs
                /\ \A i \in DOMAIN L :
                      /\ L[i].argspec = <<>>
                      /\ L[i].doc = FuncDoc(funcs[L[i].name])]_vars

\* C4 witness: with echo and boom registered, (methods 1) has been answered
\* by a list of two entries.
C4_Witness ==
    \E c \in Conns :
        /\ pc[c] = "receiving"
        /\ rpos[c] > 0
        /\ cur[c] = Msg("methods", 1, <<>>)
        /\ Len(wfile[c]) = rpos[c]
        /\ wfile[c][rpos[c]].tag = "return"
        /\ wfile[c][rpos[c]].uid = 1
        /\ Len(wfile[c][rpos[c]].val.entries) = 2
        /\ { wfile[c][rpos[c]].val.entries[i].name : i \in 1 .. 2 } = {"echo", "boom"}

\* C5: on one connection the messages are dispatched in arrival order, one
\* at a time: the message being dispatched is the rpos-th of the stream and
\* every earlier one has been answered before it was read; the i-th object
\* written answers the i-th message read and carries its uid.
C5_InOrder ==
    \A c \in Conns :
        /\ pc[c] = "dispatching"
               => /\ rpos[c] > 0
                  /\ cur[c] = rfile[c][rpos[c]]
                  /\ Len(wfile[c]) = rpos[c] - 1
        /\ pc[c] \in {"receiving", "closed"} => Len(wfile[c]) = rpos[c]
        /\ Len(ans[c]) = Len(wfile[c])
        /\ \A i \in DOMAIN wfile[c] :
              /\ ans[c][i] = i
              /\ wfile[c][i] # NilFrame => wfile[c][i].uid = rfile[c][i].uid

\* C5 witness: two messages were queued on the connection before the first
\* was read; both have been answered, in order.
C5_Witness ==
    \E c \in Conns :
        /\ Len(rfile[c]) = 2
        /\ rfile[c][1].uid # rfile[c][2].uid
        /\ rfile[c][1].tag # rfile[c][2].tag
        /\ Len(wfile[c]) = 2
        /\ wfile[c][1].uid = rfile[c][1].uid
        /\ wfile[c][2].uid = rfile[c][2].uid

\* The stream held both encoded frames, whole.
FullFeed == fed = encode_string(s1) \o encode_string(s2)
HeaderOf(text) == SubSeq(text, 1, HeaderWidth)

\* The header of encode_string(s), read as _recv reads it, is len(s) + 1.
HeaderCountsNewline(s) == IntHex(HeaderOf(encode_string(s))) = Len(s) + 1

\* _recv has yielded a prefix of `expected`, without error, and all of it
\* when it ended.
YieldsExactly(expected) ==
    /\ rstate # "error"
    /\ Len(items) <= Len(expected)
    /\ \A i \in DOMAIN items : items[i] = expected[i]
    /\ rstate = "ended" => items = expected

\* C6, as stated: the header of encode_string(s) decodes to len(s) + 1, and
\* _recv on encode_string(s1) + encode_string(s2) yields s1, then s2, and
\* ends.
C6_YieldsPayloads ==
    /\ HeaderCountsNewline(s1)
    /\ HeaderCountsNewline(s2)
    /\ FullFeed => YieldsExactly(<<s1, s2>>)

\* C6, amended: for strings of fewer than 0xffffff characters the header
\* decodes to len(s) + 1 (0xffffff is the last count six digits hold); and
\* _recv on encode_string(s1) + encode_string(s2) yields two items, s1
\* followed by a newline and then s2 followed by a newline, and ends.
C6_YieldsPayloadLines ==
    /\ HeaderCountsNewline(s1)
    /\ HeaderCountsNewline(s2)
    /\ IntHex(HeaderOf(Hex06(HeaderMax))) = HeaderMax
    /\ IntHex(HeaderOf(Hex06(HeaderMax + 1))) # HeaderMax + 1
    /\ FullFeed => YieldsExactly(<<s1 \o <<Newline>>, s2 \o <<Newline>>>>)

\* C6 witness: two different strings, one of them long enough for a
\* two-digit count, have been read back and the reader has ended.
C6_Witness ==
    /\ FullFeed
    /\ rstate = "ended"
    /\ Len(items) = 2
    /\ s1 # s2
    /\ Len(s1) >= 15
    /\ Len(s2) > 0

\* The tags the dispatch table of the protocol names.
KnownTags == {"call", "return", "return-error", "epc-error", "methods", "methods-error"}

\* C7: a message with an unrecognized tag does not end the session: the
\* handler writes nothing or writes an epc-error, and is receiving again.
C7_UnknownTagSurvives ==
    [][\A c \in Conns :
         ( /\ Dispatched(c)
           /\ cur[c].tag \notin KnownTags )
         => /\ pc'[c] = "receiving"
            /\ \/ wfile'[c] = wfile[c]
               \/ OneSent(c) /\ LastSent(c).tag = "epc-error"]_vars

\* An inbound reply.
IsReply(m) == m.tag \in {"return", "return-error", "epc-error"}

\* C8: an inbound reply whose uid has a pending callback removes that
\* entry and invokes the callback once; no callback is invoked twice.
C8_CallbackInvoked ==
    [][\A c \in Conns :
         LET m == cur[c] IN
         ( /\ Dispatched(c)
           /\ IsReply(m)
           /\ m.uid \in DOMAIN callbacks )
         => /\ m.uid \notin DOMAIN callbacks'
            /\ invoked' = Append(invoked, [uid |-> m.uid, callback |-> callbacks[m.uid]])
            /\ \A i, j \in DOMAIN invoked' : invoked'[i].uid = invoked'[j].uid => i = j]_vars

\* C9: an inbound reply whose uid has no pending callback is dropped:
\* nothing is written, no callback is invoked, the pending table is left
\* alone and the handler is receiving again.
C9_UnmatchedDropped ==
    [][\A c \in Conns :
         LET m == cur[c] IN
         ( /\ Dispatched(c)
           /\ IsReply(m)
           /\ m.uid \notin DOMAIN callbacks )
         => /\ wfile'[c] = wfile[c]
            /\ invoked' = invoked
            /\ callbacks' = callbacks
            /\ pc'[c] = "receiving"]_vars

\* C10: the uids one caller hands out are 0, 1, 2, ... in the order of the
\* call() and methods() invocations, whichever of the two asks; none is
\* handed out twice, and every invocation has its own entry in callbacks.
C10_FreshUids ==
    /\ Len(issued) > 0 => issued[1].uid = 0
    /\ \A i, j \in DOMAIN issued : i < j => issued[i].uid < issued[j].uid
    /\ DOMAIN callbacks = { issued[i].uid : i \in DOMAIN issued }
    /\ Cardinality(DOMAIN callbacks) = Len(issued)

\* C10 witness: call() and methods() have both drawn a uid, one after the
\* other.
C10_Witness ==
    /\ Len(issued) = 2
    /\ issued[1].by # issued[2].by
    /\ DOMAIN callbacks = {0, 1}

\* The handler of connection c has left handle() in this step: the loop
\* ended, or an exception ended it.
SessionEnds(c) == pc[c] \in Serving /\ pc'[c] \in {"closed", "failed"}

\* C11: when a session ends with N calls pending, each of the N callbacks
\* is invoked once (with a connection-closed error) and the pending table
\* is emptied.
C11_PendingDrained ==
    [][\A c \in Conns :
         SessionEnds(c)
         => /\ DOMAIN callbacks' = {}
            /\ Len(invoked') = Len(invoked) + Cardinality(DOMAIN callbacks)
            /\ \A u \in DOMAIN callbacks :
                  Cardinality({ i \in DOMAIN invoked' : invoked'[i].uid = u }) = 1]_vars

\* A round of the receive loop of connection c runs in this step and the
\* handler leaves "receiving".
RoundOf(c) == pc[c] = "receiving" /\ pc'[c] # "receiving"

\* What the stream holds for the next frame: the header read, the length it
\* declares and the bytes that follow it.
HeaderRead == Read(stream, HeaderWidth)
AfterHeader == Rest(stream, HeaderWidth)
CompleteHeader == Len(HeaderRead) = HeaderWidth /\ IsHex(HeaderRead)
\* The stream ends after a complete header, before the declared bytes.
Truncated == CompleteHeader /\ Len(AfterHeader) < IntHex(HeaderRead)
\* The declared bytes are there and are the dump of no message.
Unparsable ==
    /\ CompleteHeader
    /\ Len(AfterHeader) >= IntHex(HeaderRead)
    /\ \A m \in InMsgs :
          Chars(dumps(m)) \o <<Newline>> # Read(AfterHeader, IntHex(HeaderRead))

\* C12: the receive loop ends normally exactly when the header read returns
\* zero bytes; a payload cut short by the end of the stream, or a payload
\* that is no message, fails the session: nothing is written for that
\* frame, the replies written before stay, and a failed session dispatches
\* and writes nothing more.
C12_EndOrFail ==
    [][\A c \in Session :
         /\ RoundOf(c)
            => /\ pc'[c] = "closed" <=> Len(HeaderRead) = 0
               /\ (Truncated \/ Unparsable)
                  => /\ pc'[c] = "failed"
                     /\ wfile' = wfile
                     /\ cur' = cur
         /\ pc[c] = "failed"
            => /\ pc'[c] = "failed"
               /\ wfile' = wfile
               /\ cur' = cur]_vars

\* The first frame was answered and the second broke off inside its payload:
\* the session has failed with the one reply written.
C12_Witness ==
    /\ pc["c1"] = "failed"
    /\ rstate = "error"
    /\ Len(wfile["c1"]) = 1
    /\ Len(fed) > Len(encode_string(s1)) + HeaderWidth
    /\ Len(fed) < Len(encode_string(s1) \o encode_string(s2))

\* C13: with a debugger hook on the server, a `call` whose registered
\* function raises has the hook invoked exactly once, and the reply that
\* follows is the one sent without a hook: (return-error uid description)
\* with the uid of the call and the description of the exception.
C13_HookThenReply ==
    [][\A c \in Session :
         LET m == cur[c] IN
         ( /\ Dispatched(c)
           /\ debugger # "None"
           /\ IsCall(m)
           /\ m.rest[1].s \in DOMAIN funcs
           /\ Apply(funcs[m.rest[1].s], m.rest[2].items).exc # "" )
         => /\ hookCalls' = hookCalls + 1
            /\ OneSent(c)
            /\ LastSent(c) = Reply("return-error", m.uid,
                                   Str(Apply(funcs[m.rest[1].s], m.rest[2].items).exc))]_vars

\* EPCCaller.call has run in this step.
CallIssued ==
    /\ Len(issued') = Len(issued) + 1
    /\ issued'[Len(issued')].by = "call"

\* C14: call(name, args, callback) takes a fresh uid, writes one message
\* (call uid name arglist) to the peer and registers the callback under the
\* uid; the message is one _handle_call of a peer accepts, applying the
\* named function to the elements of args, whatever their number.
C14_CallSent ==
    [][CallIssued
         => /\ uidNext \notin DOMAIN callbacks
            /\ uidNext \in DOMAIN callbacks'
            /\ encoded'.tag = "call"
            /\ encoded'.uid = uidNext
            /\ Len(outbox') = Len(outbox) + 1
            /\ Len(encoded'.rest) = 2
            /\ HasValue(encoded'.rest[1])
            /\ Iterable(encoded'.rest[2])
            /\ _handle_call([n \in {encoded'.rest[1].s} |-> "echo"],
                            encoded'.uid, encoded'.rest).kind = "obj"]_vars

\* C15: a function at work for one connection does not hold up the others:
\* while connection c is being dispatched, a second connection that waits
\* with a message written can be taken up by the server.
C15_OthersServed ==
    \A c \in Conns, d \in Conns :
        ( /\ c # d
          /\ pc[c] = "dispatching"
          /\ pc[d] = "pending"
          /\ Len(rfile[d]) > 0 )
        => ENABLED Accept(d)

\* C16: a dispatched payload causes no outbound message or one.  On every
\* connection the messages written are no more than the payloads read, fewer
\* while the payload read last is still being dispatched, and every message
\* written answers a payload read before it was written, no payload twice.
C16_AtMostOneReply ==
    \A c \in Conns :
        /\ Len(wfile[c]) <= rpos[c]
        /\ pc[c] = "dispatching" => Len(wfile[c]) < rpos[c]
        /\ Len(ans[c]) = Len(wfile[c])
        /\ \A i \in DOMAIN ans[c] : ans[c][i] \in 1 .. rpos[c]
        /\ \A i \in DOMAIN ans[c], j \in DOMAIN ans[c] : i # j => ans[c][i] # ans[c][j]

\* Two payloads were read and dispatched: the first got its reply, the
\* second got none.
C16_Witness ==
    /\ rpos["c1"] = 2
    /\ pc["c1"] = "failed"
    /\ Len(wfile["c1"]) = 1
    /\ ans["c1"] = <<1>>

\* The stream fed to the reader ends inside the header of the second frame.
PartialHeader ==
    Len(fed) - Len(encode_string(s1)) \in 1 .. (HeaderWidth - 1)

\* C17: when the stream ends inside a frame header, with one to five of its
\* bytes there, the reader fails: it yields no payload for that frame, does
\* not end as on a clean close, and once the bytes are used up it has
\* raised its error.
C17_PartialHeaderFatal ==
    PartialHeader
    => /\ Len(items) <= 1
       /\ rstate # "ended"
       /\ Len(stream) = 0 => rstate = "error"

\* The kinds of reply the handler builds.
ReplyKinds == {"return", "return-error", "epc-error"}

\* C18: every object the handler has written on a connection is a reply of
\* one of the three kinds whose second element is the uid of the message it
\* answers, a uid read from that connection.
C18_ReplyCarriesUid ==
    \A c \in Conns :
        \A i \in DOMAIN wfile[c] :
            /\ wfile[c][i].tag \in ReplyKinds
            /\ wfile[c][i].uid = rfile[c][ans[c][i]].uid
            /\ \E j \in 1 .. rpos[c] : rfile[c][j].uid = wfile[c][i].uid

\* C19: register_function(f, name) binds name (f's own name when none is
\* given) to f, replacing a binding the name had, and changes no other
\* entry; a `call` or `methods` dispatched on any connection, one opened
\* before the registration included, is answered from the table as it is
\* then.
C19_LastWriteWins ==
    [][/\ \A f \in Funcs, name \in RegNames :
            register_function(f, name)
            => LET key == IF name = "" THEN FuncName(f) ELSE name IN
               /\ DOMAIN funcs' = DOMAIN funcs \cup {key}
               /\ funcs'[key] = f
               /\ \A n \in DOMAIN funcs \ {key} : funcs'[n] = funcs[n]
       /\ \A c \in Conns :
            LET m == cur[c] IN
            /\ ( /\ Dispatched(c)
                 /\ IsCall(m)
                 /\ m.rest[1].s \in DOMAIN funcs
                 /\ Apply(funcs[m.rest[1].s], m.rest[2].items).exc = "" )
               => /\ OneSent(c)
                  /\ LastSent(c) = Reply("return", m.uid,
                         Apply(funcs[m.rest[1].s], m.rest[2].items).val)
            /\ ( Dispatched(c) /\ m.tag = "methods" /\ Len(m.rest) = 0 )
               => /\ OneSent(c)
                  /\ { LastSent(c).val.entries[i].name :
                         i \in DOMAIN LastSent(c).val.entries } = DOMAIN funcs
                  /\ \A i \in DOMAIN LastSent(c).val.entries :
                        LastSent(c).val.entries[i].doc =
                            FuncDoc(funcs[LastSent(c).val.entries[i].name])]_vars

\* A connection asked for the methods while boom was registered as "echo",
\* and again after echo had been registered under that name: the second
\* list describes echo.
C19_Witness ==
    \E c \in Conns :
        /\ Len(wfile[c]) = 2
        /\ funcs = [n \in {"echo"} |-> "echo"]
        /\ \A i \in 1 .. 2 : /\ wfile[c][i].tag = "return"
                             /\ wfile[c][i].val.kind = "methods"
                             /\ Len(wfile[c][i].val.entries) = 1
        /\ wfile[c][1].val.entries[1] = MethodEntry("echo", "boom")
        /\ wfile[c][2].val.entries[1] = MethodEntry("echo", "echo")

\* C20: register_instance raises NotImplementedError and leaves the function
\* table as it was.  Whatever instances were offered, the table holds the
\* names given to register_function and no other: `methods` lists exactly
\* these, a `call` of any other name, a method of the instance included,
\* gets the epc-error, and a (return ...) reply goes to a registered name
\* only.
C20_InstanceNeverServed ==
    [][/\ \A inst \in Instances, dotted \in {"False", "True"} :
            register_instance(inst, dotted)
            => /\ raised' = "NotImplementedError"
               /\ funcs' = funcs
       /\ DOMAIN funcs' = DOMAIN registered'
       /\ \A c \in Session :
            LET m == cur[c] IN
            /\ ( Dispatched(c) /\ IsCall(m) /\ m.rest[1].s \notin DOMAIN registered )
               => /\ OneSent(c)
                  /\ LastSent(c) = Reply("epc-error", m.uid, Str(NoSuchMethod(m.rest[1].s)))
            /\ ( Dispatched(c) /\ IsCall(m) /\ wfile'[c] # wfile[c]
                    /\ LastSent(c).tag = "return" )
               => m.rest[1].s \in DOMAIN registered
            /\ ( Dispatched(c) /\ m.tag = "methods" /\ Len(m.rest) = 0 )
               => /\ OneSent(c)
                  /\ { LastSent(c).val.entries[i].name :
                         i \in DOMAIN LastSent(c).val.entries } = DOMAIN registered]_vars

\* An instance with the method ping was offered after echo was registered;
\* the peer's (call 0 ping ()) got the epc-error.
C20_Witness ==
    /\ instance = "obj"
    /\ raised = "NotImplementedError"
    /\ DOMAIN funcs = {"echo"}
    /\ pc["c1"] = "receiving"
    /\ cur["c1"] = Msg("call", 0, <<Sym("ping"), List(<<>>)>>)
    /\ Len(wfile["c1"]) = rpos["c1"]
    /\ rpos["c1"] > 0
    /\ wfile["c1"][rpos["c1"]] = Reply("epc-error", 0, Str(NoSuchMethod("ping")))
====
